---- MODULE Spec2Model ----
(***************************************************************************)
(* Skip-gram / negative-sampling notebook (PytorchWord2Vec.ipynb).         *)
(*                                                                         *)
(* Four specifications over one set of variables:                          *)
(*   Spec       the data pipeline: text_preprocess, the construction of    *)
(*              WordEmbeddingDataset and WordEmbeddingDataset.__getitem__  *)
(*   SpecEval   the function evaluate() run in an interpreter session      *)
(*   SpecTrain  the training cell (optimizer loop, logging, evaluation,    *)
(*              saving)                                                    *)
(*   SpecWorkers the training cell fed by the DataLoader's worker          *)
(*              processes, interleaved with the loop                       *)
(* List indices are the program's 0-based indices; a Python list l is the  *)
(* sequence whose element l[i] is At(l, i).                                *)
(***************************************************************************)
EXTENDS Integers, Sequences, FiniteSets, TLC

\* ------------------------------------------------------------------ bounds
MaxLen  == 3        \* longest enumerated corpus (tokens)
MaxCap  == 4        \* largest vocabulary cap MAX_VOCAB_SIZE tried
MaxC    == 3        \* largest window radius C tried
MaxK    == 2        \* largest number K of negatives per context word tried
MaxPat  == 2        \* longest period of an enumerated multinomial draw

\* ------------------------------------------------------- generic helpers
At(l, i) == l[i + 1]

Range(s) == {s[i] : i \in 1..Len(s)}

RECURSIVE SumSeq(_)
SumSeq(s) == IF s = <<>> THEN 0 ELSE Head(s) + SumSeq(Tail(s))

RECURSIVE SeqsUpTo(_, _)
SeqsUpTo(S, n) ==
  IF n = 0 THEN {<<>>}
  ELSE LET shorter == SeqsUpTo(S, n - 1)
       IN  shorter \cup {Append(s, x) : s \in {t \in shorter : Len(t) = n - 1}, x \in S}

\* Python's range(a, b) as a list
PyRange(a, b) == [j \in 1..(IF b > a THEN b - a ELSE 0) |-> a + j - 1]

\* ------------------------------------------------------------ the inputs
UNK == "<unk>"

\* tokens a corpus file is made of ("A" exercises text.lower())
FileTokens == {"a", "A", "b", UNK}

ExampleABC == <<"a", "b", "c", "a", "b", "c", "a", "b", "c">>
ExampleTen == <<"a", "b", "c", "d", "e", "a", "b", "c", "d", "e">>

Corpora == SeqsUpTo(FileTokens, MaxLen) \cup {ExampleABC, ExampleTen}

\* ------------------------------------------------------- text_preprocess
lower(w) == IF w = "A" THEN "a" ELSE w

word_tockenize(file) == file

RECURSIVE CountOf(_, _)
CountOf(w, s) ==
  IF s = <<>> THEN 0
  ELSE (IF Head(s) = w THEN 1 ELSE 0) + CountOf(w, Tail(s))

\* keys of Counter(text), in order of first occurrence
RECURSIVE FirstOccurrences(_, _)
FirstOccurrences(s, seen) ==
  IF s = <<>> THEN <<>>
  ELSE IF Head(s) \in seen THEN FirstOccurrences(Tail(s), seen)
       ELSE <<Head(s)>> \o FirstOccurrences(Tail(s), seen \cup {Head(s)})

\* Counter(text).items(): (word, count) in order of first occurrence
Counter(text) ==
  LET keys == FirstOccurrences(text, {})
  IN  [j \in 1..Len(keys) |-> [word |-> keys[j], count |-> CountOf(keys[j], text)]]

\* stable insertion of an item into a list sorted by descending count
RECURSIVE InsertByCount(_, _)
InsertByCount(it, sorted) ==
  IF sorted = <<>> THEN <<it>>
  ELSE IF Head(sorted).count >= it.count
       THEN <<Head(sorted)>> \o InsertByCount(it, Tail(sorted))
       ELSE <<it>> \o sorted

RECURSIVE SortByCount(_)
SortByCount(items) ==
  IF items = <<>> THEN <<>>
  ELSE LET n == Len(items)
       IN  InsertByCount(items[n], SortByCount(SubSeq(items, 1, n - 1)))

\* Counter.most_common(n): the n largest counts, ties in encounter order
most_common(items, n) ==
  LET sorted == SortByCount(items)
  IN  IF n <= 0 THEN <<>>
      ELSE IF n >= Len(sorted) THEN sorted ELSE SubSeq(sorted, 1, n)

\* d[key] = value on an insertion-ordered dict: an existing key keeps its place
DictSet(d, key, value) ==
  IF \E j \in 1..Len(d) : d[j].word = key
  THEN [j \in 1..Len(d) |-> IF d[j].word = key
                            THEN [word |-> key, count |-> value] ELSE d[j]]
  ELSE Append(d, [word |-> key, count |-> value])

\* sign of the smoothed frequency of entry j:
\*   counts / sum, ** 0.75, / sum again; 0/0 is nan and stays nan
Smoothed(counts, j) ==
  IF SumSeq(counts) = 0 THEN "nan"
  ELSE IF counts[j] > 0 THEN "pos" ELSE "zero"

text_preprocess(file, MAX_VOCAB_SIZE) ==
  LET text     == [j \in 1..Len(word_tockenize(file)) |-> lower(word_tockenize(file)[j])]
      top      == most_common(Counter(text), MAX_VOCAB_SIZE - 1)
      vocab    == DictSet(top, UNK,
                          Len(text) - SumSeq([j \in 1..Len(top) |-> top[j].count]))
      i2w      == [j \in 1..Len(vocab) |-> vocab[j].word]
      w2i      == [w \in Range(i2w) |-> (CHOOSE j \in 1..Len(i2w) : i2w[j] = w) - 1]
      counts   == [j \in 1..Len(vocab) |-> vocab[j].count]
      freqs    == [j \in 1..Len(vocab) |-> Smoothed(counts, j)]
  IN  [text |-> text, idx2word |-> i2w, word2idx |-> w2i,
       word_freqs |-> freqs, word_counts |-> counts, vocab_size |-> Len(i2w)]

\* ------------------------------------------------- WordEmbeddingDataset
\* WordEmbeddingDataset.__init__; vsize is the session global VOCAB_SIZE
DatasetInit(txt, w2i, i2w, freqs, counts, vsize) ==
  [text_encoded |-> [j \in 1..Len(txt) |->
                       IF txt[j] \in DOMAIN w2i THEN w2i[txt[j]] ELSE vsize - 1],
   word2idx |-> w2i, idx2word |-> i2w, word_freqs |-> freqs, word_counts |-> counts]

\* WordEmbeddingDataset.__len__
DatasetLen(ds) == Len(ds.text_encoded)

\* a window cut off at the corpus edges instead of wrapped
PosIndicesClamped(idx, radius, n) ==
  LET raw == PyRange(idx - radius, idx) \o PyRange(idx + 1, idx + radius + 1)
  IN  [j \in 1..Len(raw) |->
         IF raw[j] < 0 THEN 0 ELSE IF raw[j] > n - 1 THEN n - 1 ELSE raw[j]]

\* positions of the context window of idx, before the data is read
PosIndices(idx, radius, n) ==
  LET raw == PyRange(idx - radius, idx) \o PyRange(idx + 1, idx + radius + 1)
  IN  [j \in 1..Len(raw) |-> raw[j] % n]

\* a sampler that ignores the weights and draws any index
MultinomialUniform(weights, n) ==
  LET support == {j - 1 : j \in 1..Len(weights)}
  IN  IF support # {}
      THEN {[status |-> "ok",
             value  |-> [m \in 1..n |-> pat[((m - 1) % Len(pat)) + 1]]] :
               pat \in SeqsUpTo(support, MaxPat) \ {<<>>}}
      ELSE {[status |-> "RuntimeError", value |-> <<>>]}

\* torch.multinomial(weights, n, True): n indices of positive weight, or a
\* RuntimeError when the weights are no distribution (nan, or no mass).
\* The draws enumerated are the periodic ones of period <= MaxPat.
Multinomial(weights, n) ==
  LET support == {j - 1 : j \in {m \in 1..Len(weights) : weights[m] = "pos"}}
      valid   == /\ \A j \in 1..Len(weights) : weights[j] \in {"pos", "zero"}
                 /\ support # {}
  IN  IF valid
      THEN {[status |-> "ok",
             value  |-> [m \in 1..n |-> pat[((m - 1) % Len(pat)) + 1]]] :
               pat \in SeqsUpTo(support, MaxPat) \ {<<>>}}
      ELSE {[status |-> "RuntimeError", value |-> <<>>]}

\* a __getitem__ that masks the centre word's weight in place
DatasetAfterGetItemMasked(ds, idx) ==
  [ds EXCEPT !.word_freqs =
     [j \in 1..Len(ds.word_freqs) |->
        IF j = At(ds.text_encoded, idx) + 1 THEN "zero" ELSE ds.word_freqs[j]]]

\* the dataset object after __getitem__(idx): the method assigns no
\* attribute of self and calls nothing that updates one in place
DatasetAfterGetItem(ds, idx) == ds

\* WordEmbeddingDataset.__getitem__(idx) with the draw `neg` of multinomial
GetItem(ds, idx, radius, neg) ==
  LET pos_indices == PosIndices(idx, radius, DatasetLen(ds))
      pos_words   == [j \in 1..Len(pos_indices) |-> At(ds.text_encoded, pos_indices[j])]
  IN  [idx |-> idx, status |-> neg.status,
       center_word |-> At(ds.text_encoded, idx),
       pos_indices |-> pos_indices,
       pos_words   |-> pos_words,
       neg_words   |-> neg.value]

NoItem == [idx |-> -1, status |-> "none", center_word |-> -1,
           pos_indices |-> <<>>, pos_words |-> <<>>, neg_words |-> <<>>]

NoDataset == [text_encoded |-> <<>>, word2idx |-> <<>>, idx2word |-> <<>>,
              word_freqs |-> <<>>, word_counts |-> <<>>]

\* ------------------------------------------------------------- evaluate
\* names the cell of text_preprocess binds in the interpreter session
PreprocessNames == {"text", "idx2word", "word2idx", "word_freqs", "word_counts", "VOCAB_SIZE"}

\* the free names of evaluate and find_nearest that no cell of the notebook
\* binds; a session has them only if a cell outside the notebook bound them
\* (to the vocabulary)
AliasNames == {"word_to_idx", "idx_to_word"}

BenchNames == {"simlex-999.txt", "men.txt", "wordsim353.csv"}

\* the loop of evaluate over the rows of the DataFrame, from row r on;
\* names are the session's bound names, w2i the vocabulary word_to_idx denotes
RECURSIVE EvaluateRows(_, _, _, _, _, _)
EvaluateRows(data, r, human, model, names, w2i) ==
  IF r > Len(data)
  THEN [filename |-> "", status |-> "returned",
        human_similarity |-> human, model_similarity |-> model]
  ELSE IF "word_to_idx" \notin names
  THEN [filename |-> "", status |-> "NameError",
        human_similarity |-> human, model_similarity |-> model]
  ELSE IF data[r].word1 \notin DOMAIN w2i \/ data[r].word2 \notin DOMAIN w2i
  THEN EvaluateRows(data, r + 1, human, model, names, w2i)
  ELSE EvaluateRows(data, r + 1,
                    Append(human, data[r].score),
                    Append(model, <<w2i[data[r].word1], w2i[data[r].word2]>>),
                    names, w2i)

\* evaluate(filename, embedding_weights) on the parsed file; a model
\* similarity is named by the pair of embedding rows it is the cosine of
evaluate(data, names, w2i) == EvaluateRows(data, 1, <<>>, <<>>, names, w2i)

\* find_nearest(word)
find_nearest(word, names, w2i) ==
  IF "word_to_idx" \notin names THEN "NameError"
  ELSE IF word \notin DOMAIN w2i THEN "KeyError"
  ELSE IF "idx_to_word" \notin names THEN "NameError"
  ELSE "returned"

NoResult == [filename |-> "", status |-> "none",
             human_similarity |-> <<>>, model_similarity |-> <<>>]

\* ------------------------------------------------------------- the state
VARIABLES
  pc,             \* position in the notebook / in the running cell
  txt_file,       \* tokens of TRAIN_FILE
  MAX_VOCAB_SIZE, \* vocabulary cap
  C, K,           \* window radius, negatives per context word
  text, idx2word, word2idx, word_freqs, word_counts, VOCAB_SIZE,
                  \* the names bound by the text_preprocess call
  dataset,        \* the WordEmbeddingDataset object
  item,           \* outcome of the last __getitem__ call
  globals,        \* names bound in the interpreter session
  files,          \* benchmark file name -> its rows as read by pd.read_csv
  evalResult,     \* outcome of the last evaluate call
  NUM_CUDA,       \* torch.cuda.device_count()
  nbatches,       \* len(dataloader): batches per epoch
  wrapped,        \* model is an nn.DataParallel around the EmbeddingModel
  e, i,           \* epoch and batch counters of the training cell
  yielded,        \* batches the epoch's iterator has yielded
  steps,          \* optimizer steps applied to the two embedding tables
  embedding_weights, \* the global of that name: the step count it was read at
  log,            \* lines appended to LOG_FILE
  saves,          \* np.save / torch.save calls made, in order
  trace,          \* operations of the current iteration, in order
  error,          \* exception that ended the training cell, or "none"
  BATCH_SIZE,     \* samples per batch
  tasks,          \* the epoch's batches: lists of corpus positions, in order
  workers,        \* data-loading worker -> its batch and progress in it
  ready, failed,  \* batches collated by a worker / batches whose worker raised
  in_embed, out_embed, \* the two embedding tables: number of writes so far
  writers         \* processes that have written an embedding table

dataVars == <<txt_file, MAX_VOCAB_SIZE, C, K, text, idx2word, word2idx,
              word_freqs, word_counts, VOCAB_SIZE, dataset, item>>

sessVars == <<globals, files, evalResult>>

trainVars == <<NUM_CUDA, nbatches, wrapped, e, i, yielded, steps,
               embedding_weights, log, saves, trace, error>>

workVars == <<BATCH_SIZE, tasks, workers, ready, failed>>

tableVars == <<in_embed, out_embed, writers>>

vars == <<pc, dataVars, sessVars, trainVars, workVars, tableVars>>

\* DataLoader(dataset, batch_size=BATCH_SIZE, shuffle=True, num_workers=4)
NUM_WORKERS == 4

WorkerIds == 1..NUM_WORKERS

IdleWorker == [status |-> "idle", task |-> -1, pos |-> 0]

\* no iterator over the dataloader exists
WorkIdle ==
  /\ tasks = <<>>
  /\ workers = [w \in WorkerIds |-> IdleWorker]
  /\ ready = {} /\ failed = {}

\* the tables as EmbeddingModel.__init__ leaves them
TablesIdle ==
  /\ in_embed = 0 /\ out_embed = 0
  /\ writers = {}

\* the training cell has not run
TrainIdle ==
  /\ wrapped = FALSE
  /\ e = -1 /\ i = -1 /\ yielded = 0
  /\ steps = 0 /\ embedding_weights = -1
  /\ log = <<>> /\ saves = <<>> /\ trace = <<>>
  /\ error = "none"

\* --------------------------------------------------- the data pipeline
Init ==
  /\ pc = "start"
  /\ txt_file \in Corpora
  /\ MAX_VOCAB_SIZE \in 1..MaxCap
  /\ C \in 1..MaxC
  /\ K \in 1..MaxK
  /\ text = <<>> /\ idx2word = <<>> /\ word2idx = <<>>
  /\ word_freqs = <<>> /\ word_counts = <<>> /\ VOCAB_SIZE = 0
  /\ dataset = NoDataset
  /\ item = NoItem
  /\ globals = {}
  /\ files = [f \in BenchNames |-> <<>>]
  /\ evalResult = NoResult
  /\ NUM_CUDA = 0 /\ nbatches = 0
  /\ TrainIdle
  /\ BATCH_SIZE = 1 /\ WorkIdle /\ TablesIdle

\* text, idx2word, ..., VOCAB_SIZE = text_preprocess(TRAIN_FILE)
Preprocess ==
  /\ pc = "start"
  /\ UNCHANGED <<workVars, tableVars>>
  /\ LET r == text_preprocess(txt_file, MAX_VOCAB_SIZE)
     IN  /\ text' = r.text
         /\ idx2word' = r.idx2word
         /\ word2idx' = r.word2idx
         /\ word_freqs' = r.word_freqs
         /\ word_counts' = r.word_counts
         /\ VOCAB_SIZE' = r.vocab_size
  /\ pc' = "preprocessed"
  /\ globals' = globals \cup PreprocessNames
  /\ UNCHANGED <<txt_file, MAX_VOCAB_SIZE, C, K, dataset, item, files, evalResult,
                 trainVars>>

\* dataset = WordEmbeddingDataset(text, word2idx, idx2word, word_freqs, word_counts)
MakeDataset ==
  /\ pc = "preprocessed"
  /\ UNCHANGED <<workVars, tableVars>>
  /\ dataset' = DatasetInit(text, word2idx, idx2word, word_freqs, word_counts, VOCAB_SIZE)
  /\ pc' = "dataset"
  /\ globals' = globals \cup {"dataset"}
  /\ UNCHANGED <<txt_file, MAX_VOCAB_SIZE, C, K, text, idx2word, word2idx,
                 word_freqs, word_counts, VOCAB_SIZE, item, files, evalResult,
                 trainVars>>

\* dataset[idx] for a position idx of the corpus
CallGetItem ==
  /\ pc = "dataset"
  /\ UNCHANGED <<workVars, tableVars>>
  /\ \E idx \in 0..(DatasetLen(dataset) - 1) :
       \E neg \in Multinomial(dataset.word_freqs, K * Len(PosIndices(idx, C, DatasetLen(dataset)))) :
         /\ item' = GetItem(dataset, idx, C, neg)
         /\ dataset' = DatasetAfterGetItem(dataset, idx)
  /\ pc' = "item"
  /\ UNCHANGED <<txt_file, MAX_VOCAB_SIZE, C, K, text, idx2word, word2idx,
                 word_freqs, word_counts, VOCAB_SIZE, sessVars, trainVars>>

Next == Preprocess \/ MakeDataset \/ CallGetItem

Spec == Init /\ [][Next]_vars

\* =====================================================================
\* Properties of the data pipeline (checked under Spec)
\* =====================================================================
Preprocessed == pc # "start"

UnkIndex == word2idx[UNK]

\* C1: after text_preprocess the vocabulary counts, the "<unk>" bucket
\* included, add up to the number of tokens of the corpus, for every corpus
\* (also one that contains the token "<unk>") and every cap.
C1_CountsSumToTokens ==
  Preprocessed => SumSeq(word_counts) = Len(txt_file)

\* C2: the vocabulary indices are exactly 0..vocab_size-1, word2idx and
\* idx2word are inverse of each other, and "<unk>" has the last index
\* vocab_size-1, for every corpus and every cap.
C2_ContiguousUnkLast ==
  Preprocessed =>
    /\ VOCAB_SIZE = Len(idx2word)
    /\ DOMAIN word2idx = Range(idx2word)
    /\ {word2idx[w] : w \in DOMAIN word2idx} = 0..(VOCAB_SIZE - 1)
    /\ \A v \in 0..(VOCAB_SIZE - 1) : word2idx[At(idx2word, v)] = v
    /\ \A w \in DOMAIN word2idx : At(idx2word, word2idx[w]) = w
    /\ UNK \in DOMAIN word2idx
    /\ UnkIndex = VOCAB_SIZE - 1

\* C3: for every corpus of length N >= 1 and every position idx,
\* __getitem__(idx) returns exactly 2*C context indices and exactly K*2*C
\* negative indices.
C3_GetItemReturnsSizes ==
  item.status # "none" =>
    /\ item.status = "ok"
    /\ Len(item.pos_words) = 2 * C
    /\ Len(item.neg_words) = K * 2 * C

\* words of a list of vocabulary indices
WordsOf(ix) == [j \in 1..Len(ix) |-> At(idx2word, ix[j])]

\* C4: the context returned by __getitem__(idx) is the encoded corpus read at
\* the positions (idx+d) mod N for d = -C..-1, +1..+C in that order; for C=3
\* and N=10, position 0 reads 7,8,9 on its left and position 9 reads 0,1,2 on
\* its right; for "a b c a b c a b c" and C=1, position 1 yields ["a","c"].
C4_ContextWrapsCircularly ==
  item.status = "ok" =>
    LET N == Len(dataset.text_encoded)
    IN  /\ Len(item.pos_words) = 2 * C
        /\ \A j \in 1..C :
             /\ item.pos_indices[j] = (item.idx - C + j - 1) % N
             /\ item.pos_indices[C + j] = (item.idx + j) % N
             /\ item.pos_words[j] = At(dataset.text_encoded, (item.idx - C + j - 1) % N)
             /\ item.pos_words[C + j] = At(dataset.text_encoded, (item.idx + j) % N)
        /\ (N = 10 /\ C = 3 /\ item.idx = 0)
             => SubSeq(item.pos_indices, 1, 3) = <<7, 8, 9>>
        /\ (N = 10 /\ C = 3 /\ item.idx = 9)
             => SubSeq(item.pos_indices, 4, 6) = <<0, 1, 2>>
        /\ (txt_file = ExampleABC /\ MAX_VOCAB_SIZE >= 4 /\ C = 1 /\ item.idx = 1)
             => /\ At(idx2word, item.center_word) = "b"
                /\ WordsOf(item.pos_words) = <<"a", "c">>

\* a window that wraps at the left edge of a corpus of length 10
C4_Witness ==
  /\ item.status = "ok"
  /\ txt_file = ExampleTen /\ C = 3 /\ item.idx = 0
  /\ item.pos_indices = <<7, 8, 9, 1, 2, 3>>

\* C5: the encoded corpus has the length and order of the token stream; a
\* token that is a vocabulary key is encoded as its own index, a token that
\* is not a key is encoded as the index of "<unk>", and every code lies in
\* 0..vocab_size-1.
C5_EncodedCorpus ==
  pc \in {"dataset", "item"} =>
    /\ Len(dataset.text_encoded) = Len(text)
    /\ \A j \in 1..Len(text) :
         /\ dataset.text_encoded[j] \in 0..(VOCAB_SIZE - 1)
         /\ text[j] \in DOMAIN word2idx
              => At(idx2word, dataset.text_encoded[j]) = text[j]
         /\ text[j] \notin DOMAIN word2idx
              => dataset.text_encoded[j] = UnkIndex

\* C6: an index has positive sampling probability exactly when its raw count
\* is nonzero; every negative sample returned by __getitem__ is an index of
\* 0..vocab_size-1 with positive probability; when the "<unk>" bucket is
\* empty the negatives are words that occur in the corpus, never "<unk>".
C6_NegativesHaveMass ==
  /\ Preprocessed =>
       \A v \in 1..Len(word_counts) : (word_freqs[v] = "pos") <=> (word_counts[v] # 0)
  /\ item.status = "ok" =>
       /\ \A j \in 1..Len(item.neg_words) :
            /\ item.neg_words[j] \in 0..(VOCAB_SIZE - 1)
            /\ At(dataset.word_freqs, item.neg_words[j]) = "pos"
            /\ At(dataset.word_counts, item.neg_words[j]) # 0
       /\ At(word_counts, UnkIndex) = 0 =>
            \A j \in 1..Len(item.neg_words) :
              /\ item.neg_words[j] # UnkIndex
              /\ At(idx2word, item.neg_words[j]) \in Range(text)

\* negatives drawn for "a b c a b c a b c" with nothing out of vocabulary
C6_Witness ==
  /\ item.status = "ok"
  /\ txt_file = ExampleABC /\ MAX_VOCAB_SIZE = 4
  /\ At(word_counts, UnkIndex) = 0
  /\ Len(item.neg_words) = K * 2 * C

\* =====================================================================
\* evaluate() in an interpreter session (SpecEval)
\* =====================================================================
MaxPairs == 2       \* longest enumerated benchmark file (rows)

BenchWords == {"a", "d", "zzz"}

BenchRows == [word1 : BenchWords, word2 : BenchWords, score : {1, 2}]

\* the session once the cells up to the model definition have run
SessionAfterPreprocess(corpus, cap) ==
  LET r == text_preprocess(corpus, cap)
  IN  /\ txt_file = corpus
      /\ MAX_VOCAB_SIZE = cap
      /\ text = r.text
      /\ idx2word = r.idx2word
      /\ word2idx = r.word2idx
      /\ word_freqs = r.word_freqs
      /\ word_counts = r.word_counts
      /\ VOCAB_SIZE = r.vocab_size
      /\ dataset = DatasetInit(r.text, r.word2idx, r.idx2word, r.word_freqs,
                               r.word_counts, r.vocab_size)
      /\ item = NoItem

InitEval ==
  /\ pc = "eval_ready"
  /\ \E corpus \in {ExampleABC, ExampleTen}, cap \in {2, MaxCap} :
       SessionAfterPreprocess(corpus, cap)
  /\ C = 1 /\ K = 1
  /\ \E extra \in {{}, AliasNames} : globals = PreprocessNames \cup {"dataset"} \cup extra
  /\ \E rows \in SeqsUpTo(BenchRows, MaxPairs) : files = [f \in BenchNames |-> rows]
  /\ evalResult = NoResult
  /\ NUM_CUDA = 0 /\ nbatches = 0
  /\ TrainIdle
  /\ BATCH_SIZE = 1 /\ WorkIdle /\ TablesIdle

\* evaluate(filename, embedding_weights)
CallEvaluate ==
  /\ pc = "eval_ready"
  /\ UNCHANGED <<workVars, tableVars>>
  /\ \E filename \in BenchNames :
       evalResult' = [evaluate(files[filename], globals, word2idx)
                        EXCEPT !.filename = filename]
  /\ pc' = "eval_done"
  /\ UNCHANGED <<dataVars, globals, files, trainVars>>

NextEval == CallEvaluate

SpecEval == InitEval /\ [][NextEval]_vars

\* rows of a file whose two words are both in the vocabulary
InVocabRows(data) ==
  {r \in 1..Len(data) : data[r].word1 \in DOMAIN word2idx /\ data[r].word2 \in DOMAIN word2idx}

\* C9: evaluate, run in the notebook's session after the vocabulary is built,
\* skips a pair with a word absent from the vocabulary, collects one model
\* similarity and one human score for every other pair (so both lists have
\* the length of the number of in-vocabulary pairs) and returns a rank
\* correlation instead of raising.
C9_EvaluateSkipsAndReturns ==
  pc = "eval_done" =>
    /\ evalResult.status = "returned"
    /\ Len(evalResult.human_similarity) = Len(evalResult.model_similarity)
    /\ Len(evalResult.human_similarity)
         = Cardinality(InVocabRows(files[evalResult.filename]))

\* =====================================================================
\* The model cell and the training cell (SpecTrain)
\* =====================================================================
MaxBatches == 2001  \* largest number of batches per epoch tried
MaxCuda    == 2     \* largest device count tried

EPOCHS == 2

LogEvery == 100     \* iterations between two loss lines

EvalEvery == 2000   \* iterations between two evaluations

ExampleMonster == <<"a", "monster", "a", "monster">>

\* benchmark files the training session may find
TrainBench ==
  {<<>>,
   <<[word1 |-> "a", word2 |-> "zzz", score |-> 1],
     [word1 |-> "a", word2 |-> "monster", score |-> 2]>>}

\* a model left unwrapped on a machine with two devices
WrappedOnlyAboveTwo(num_cuda) == num_cuda > 2

\* if NUM_CUDA > 1: model = nn.DataParallel(model)
Wrapped(num_cuda) == num_cuda > 1

\* model.input_embeddings resolves: nn.DataParallel forwards no method of
\* the module it wraps
HasInputEmbeddings(isWrapped) == ~isWrapped

\* a loss line one iteration late
ShouldLogOffByOne(ii) == ii % LogEvery = 1

\* if i % 100 == 0
ShouldLog(ii) == ii % LogEvery = 0

\* if i % 2000 == 0
ShouldEvaluate(ii) == ii % EvalEvery = 0

\* the exception the evaluation block of the training cell ends with
EvaluationOutcome(isWrapped, fs, names, w2i) ==
  IF ~HasInputEmbeddings(isWrapped) THEN "AttributeError"
  ELSE IF evaluate(fs["simlex-999.txt"], names, w2i).status # "returned"
       THEN evaluate(fs["simlex-999.txt"], names, w2i).status
  ELSE IF evaluate(fs["men.txt"], names, w2i).status # "returned"
       THEN evaluate(fs["men.txt"], names, w2i).status
  ELSE IF evaluate(fs["wordsim353.csv"], names, w2i).status # "returned"
       THEN evaluate(fs["wordsim353.csv"], names, w2i).status
  ELSE IF find_nearest("monster", names, w2i) # "returned"
       THEN find_nearest("monster", names, w2i)
  ELSE "none"

InitTrain ==
  /\ pc = "model_cell"
  /\ \E corpus \in {ExampleABC, ExampleMonster} : SessionAfterPreprocess(corpus, MaxCap)
  /\ C = 1 /\ K = 1
  /\ \E extra \in {{}, AliasNames} :
       globals = PreprocessNames \cup {"dataset", "dataloader"} \cup extra
  /\ \E rows \in TrainBench : files = [f \in BenchNames |-> rows]
  /\ evalResult = NoResult
  /\ NUM_CUDA \in 0..MaxCuda
  /\ nbatches \in {1, LogEvery + 1, MaxBatches}
  /\ TrainIdle
  /\ BATCH_SIZE = 1 /\ WorkIdle /\ TablesIdle

loopVars == <<NUM_CUDA, nbatches, wrapped, e, i, yielded, steps,
              embedding_weights, log, saves, error>>

\* model = EmbeddingModel(...); model = nn.DataParallel(model) if NUM_CUDA > 1
ConstructModel ==
  /\ pc = "model_cell"
  /\ UNCHANGED <<workVars, tableVars>>
  /\ wrapped' = Wrapped(NUM_CUDA)
  /\ globals' = globals \cup {"model"}
  /\ pc' = "train_cell"
  /\ UNCHANGED <<dataVars, files, evalResult, NUM_CUDA, nbatches, e, i, yielded,
                 steps, embedding_weights, log, saves, trace, error>>

\* optimizer = torch.optim.SGD(model.parameters(), lr=LEARNING_RATE)
CreateOptimizer ==
  /\ pc = "train_cell"
  /\ UNCHANGED <<workVars, tableVars>>
  /\ globals' = globals \cup {"optimizer"}
  /\ pc' = "for_e"
  /\ UNCHANGED <<dataVars, files, evalResult, trainVars>>

\* for e in range(EPOCHS): the next epoch starts
BeginEpoch ==
  /\ pc = "for_e"
  /\ UNCHANGED <<workVars, tableVars>>
  /\ e + 1 < EPOCHS
  /\ e' = e + 1
  /\ yielded' = 0
  /\ trace' = <<>>
  /\ pc' = "for_i"
  /\ UNCHANGED <<dataVars, sessVars, NUM_CUDA, nbatches, wrapped, i, steps,
                 embedding_weights, log, saves, error>>

\* for e in range(EPOCHS): exhausted
EndTraining ==
  /\ pc = "for_e"
  /\ UNCHANGED <<workVars, tableVars>>
  /\ e + 1 >= EPOCHS
  /\ pc' = "done"
  /\ UNCHANGED <<dataVars, sessVars, trainVars>>

\* for i, batch in enumerate(dataloader): the next batch
FetchBatch ==
  /\ pc = "for_i"
  /\ UNCHANGED <<workVars, tableVars>>
  /\ yielded < nbatches
  /\ i' = yielded
  /\ yielded' = yielded + 1
  /\ trace' = <<>>
  /\ pc' = "zero_grad"
  /\ UNCHANGED <<dataVars, sessVars, NUM_CUDA, nbatches, wrapped, e, steps,
                 embedding_weights, log, saves, error>>

\* optimizer.zero_grad()
ZeroGrad ==
  /\ pc = "zero_grad"
  /\ UNCHANGED <<workVars, tableVars>>
  /\ trace' = Append(trace, "zero_grad")
  /\ pc' = "forward"
  /\ UNCHANGED <<dataVars, sessVars, loopVars>>

\* loss = model(input_labels, pos_labels, neg_labels).mean()
Forward ==
  /\ pc = "forward"
  /\ UNCHANGED <<workVars, tableVars>>
  /\ trace' = Append(trace, "forward")
  /\ pc' = "backward"
  /\ UNCHANGED <<dataVars, sessVars, loopVars>>

\* loss.backward()
Backward ==
  /\ pc = "backward"
  /\ UNCHANGED <<workVars, tableVars>>
  /\ trace' = Append(trace, "backward")
  /\ pc' = "step"
  /\ UNCHANGED <<dataVars, sessVars, loopVars>>

\* optimizer.step()
Step ==
  /\ pc = "step"
  /\ steps' = steps + 1
  /\ in_embed' = in_embed + 1
  /\ out_embed' = out_embed + 1
  /\ writers' = writers \cup {"main"}
  /\ UNCHANGED workVars
  /\ trace' = Append(trace, "step")
  /\ pc' = "log_check"
  /\ UNCHANGED <<dataVars, sessVars, NUM_CUDA, nbatches, wrapped, e, i, yielded,
                 embedding_weights, log, saves, error>>

\* if i % 100 == 0: the loss line is appended to LOG_FILE
LogLoss ==
  /\ pc = "log_check"
  /\ UNCHANGED <<workVars, tableVars>>
  /\ ShouldLog(i)
  /\ log' = Append(log, [kind |-> "loss", e |-> e, i |-> i])
  /\ trace' = Append(trace, "log")
  /\ pc' = "eval_check"
  /\ UNCHANGED <<dataVars, sessVars, NUM_CUDA, nbatches, wrapped, e, i, yielded,
                 steps, embedding_weights, saves, error>>

SkipLog ==
  /\ pc = "log_check"
  /\ UNCHANGED <<workVars, tableVars>>
  /\ ~ShouldLog(i)
  /\ pc' = "eval_check"
  /\ UNCHANGED <<dataVars, sessVars, trainVars>>

\* if i % 2000 == 0: read the embeddings, evaluate on the three benchmark
\* files, query the neighbours of "monster", append the line to LOG_FILE
Evaluation ==
  /\ pc = "eval_check"
  /\ UNCHANGED <<workVars, tableVars>>
  /\ ShouldEvaluate(i)
  /\ LET out == EvaluationOutcome(wrapped, files, globals, word2idx)
     IN  /\ error' = out
         /\ embedding_weights' = IF HasInputEmbeddings(wrapped) THEN steps
                                 ELSE embedding_weights
         /\ globals' = IF HasInputEmbeddings(wrapped)
                       THEN globals \cup {"embedding_weights"} ELSE globals
         /\ log' = IF out = "none"
                   THEN Append(log, [kind |-> "eval", e |-> e, i |-> i]) ELSE log
         /\ pc' = IF out = "none" THEN "for_i" ELSE "crashed"
  /\ trace' = Append(trace, "eval")
  /\ UNCHANGED <<dataVars, files, evalResult, NUM_CUDA, nbatches, wrapped, e, i,
                 yielded, steps, saves>>

\* an evaluation-free iteration that also writes the two files
SkipEvaluationAndSave ==
  /\ pc = "eval_check"
  /\ UNCHANGED <<workVars, tableVars>>
  /\ ~ShouldEvaluate(i)
  /\ saves' = Append(saves, [e |-> e, i |-> i, npy |-> steps, th |-> steps])
  /\ pc' = "for_i"
  /\ UNCHANGED <<dataVars, sessVars, NUM_CUDA, nbatches, wrapped, e, i, yielded,
                 steps, embedding_weights, log, trace, error>>

SkipEvaluation ==
  /\ pc = "eval_check"
  /\ UNCHANGED <<workVars, tableVars>>
  /\ ~ShouldEvaluate(i)
  /\ pc' = "for_i"
  /\ UNCHANGED <<dataVars, sessVars, trainVars>>

\* after the last batch of the epoch: read the embeddings, np.save them and
\* torch.save the state_dict
Save ==
  /\ pc = "for_i"
  /\ UNCHANGED <<workVars, tableVars>>
  /\ yielded >= nbatches
  /\ IF HasInputEmbeddings(wrapped)
     THEN /\ embedding_weights' = steps
          /\ globals' = globals \cup {"embedding_weights"}
          /\ saves' = Append(saves, [e |-> e, i |-> i, npy |-> steps, th |-> steps])
          /\ pc' = "for_e"
          /\ error' = error
     ELSE /\ error' = "AttributeError"
          /\ pc' = "crashed"
          /\ UNCHANGED <<embedding_weights, globals, saves>>
  /\ UNCHANGED <<dataVars, files, evalResult, NUM_CUDA, nbatches, wrapped, e, i,
                 yielded, steps, log, trace>>

NextTrain ==
  \/ ConstructModel \/ CreateOptimizer
  \/ BeginEpoch \/ EndTraining
  \/ FetchBatch \/ ZeroGrad \/ Forward \/ Backward \/ Step
  \/ LogLoss \/ SkipLog \/ Evaluation \/ SkipEvaluation
  \/ Save

SpecTrain == InitTrain /\ [][NextTrain]_vars

\* =====================================================================
\* Properties of the training cell (checked under SpecTrain)
\* =====================================================================
IsPrefix(a, b) == Len(a) <= Len(b) /\ a = SubSeq(b, 1, Len(a))

\* number of j in 0..n-1 with j % k = 0
Multiples(n, k) == (n + k - 1) \div k

CountKind(kind) == Cardinality({k \in 1..Len(log) : log[k].kind = kind})

\* epochs whose end-of-epoch code has run
EpochsCompleted ==
  IF pc \in {"for_e", "done"} THEN e + 1 ELSE IF e < 0 THEN 0 ELSE e

\* iterations of the current epoch that came before the one in `trace`
IterationsBefore == IF yielded > 0 THEN yielded - 1 ELSE 0

EpochsBefore == IF e < 0 THEN 0 ELSE e

C8_WrappedEvaluationIsFatal ==
  /\ (NUM_CUDA > 1 /\ pc # "model_cell") => wrapped
  /\ NUM_CUDA > 1 =>
       /\ steps <= 1 /\ saves = <<>> /\ embedding_weights = -1
       /\ e <= 0 /\ yielded <= 1 /\ Len(log) <= 1
       /\ pc # "done" /\ (pc = "for_e" => e = -1) /\ (pc = "for_i" => yielded = 0)
       /\ "eval" \in Range(trace) =>
            /\ pc = "crashed" /\ error = "AttributeError"
            /\ e = 0 /\ i = 0 /\ steps = 1
            /\ log = <<[kind |-> "loss", e |-> 0, i |-> 0]>>
  /\ NUM_CUDA <= 1 => (~wrapped /\ error # "AttributeError")

\* the wrapped model has crashed in its first evaluation
C8_Witness ==
  /\ NUM_CUDA > 1 /\ wrapped
  /\ pc = "crashed" /\ error = "AttributeError"
  /\ steps = 1 /\ Len(log) = 1

\* operations of iteration ii in program order
Expected(ii) ==
  <<"zero_grad", "forward", "backward", "step">>
    \o (IF ii % LogEvery = 0 THEN <<"log">> ELSE <<>>)
    \o (IF ii % EvalEvery = 0 THEN <<"eval">> ELSE <<>>)

MaxBatchSize == 2   \* largest BATCH_SIZE tried

ExampleShort == <<"a", "monster", "a">>

\* corpora the worker pool is run on; the second one has no count mass
WorkerCorpora == {ExampleShort, <<UNK, UNK>>}

\* all orders of the elements of S (the shuffling sampler)
RECURSIVE Shuffles(_)
Shuffles(S) ==
  IF S = {} THEN {<<>>}
  ELSE UNION {{<<x>> \o p : p \in Shuffles(S \ {x})} : x \in S}

\* number of batches of n samples: len(dataloader)
NumBatches(n, size) == (n + size - 1) \div size

\* the batch sampler: consecutive slices of the shuffled positions
Batches(order, size) ==
  [b \in 1..NumBatches(Len(order), size) |->
     SubSeq(order, (b - 1) * size + 1,
            IF b * size <= Len(order) THEN b * size ELSE Len(order))]

\* the worker that receives batch b (0-based), in round-robin order
WorkerOf(b) == (b % NUM_WORKERS) + 1

InitWorkers ==
  /\ pc = "model_cell"
  /\ \E corpus \in WorkerCorpora : SessionAfterPreprocess(corpus, MaxCap)
  /\ C = 1 /\ K = 1
  /\ \E extra \in {{}, AliasNames} :
       globals = PreprocessNames \cup {"dataset", "dataloader"} \cup extra
  /\ files = [f \in BenchNames |-> <<>>]
  /\ evalResult = NoResult
  /\ NUM_CUDA \in 1..MaxCuda
  /\ BATCH_SIZE \in 1..MaxBatchSize
  /\ nbatches = NumBatches(Len(txt_file), BATCH_SIZE)
  /\ TrainIdle
  /\ WorkIdle /\ TablesIdle

\* for e in range(EPOCHS): the next epoch starts and enumerate(dataloader)
\* makes a new iterator: the positions are shuffled, cut into batches and
\* handed to a fresh set of workers
WorkersBeginEpoch ==
  /\ pc = "for_e"
  /\ e + 1 < EPOCHS
  /\ e' = e + 1
  /\ yielded' = 0
  /\ trace' = <<>>
  /\ \E order \in Shuffles(0..(DatasetLen(dataset) - 1)) :
       tasks' = Batches(order, BATCH_SIZE)
  /\ workers' = [w \in WorkerIds |-> IdleWorker]
  /\ ready' = {} /\ failed' = {}
  /\ pc' = "for_i"
  /\ UNCHANGED <<dataVars, sessVars, NUM_CUDA, nbatches, wrapped, i, steps,
                 embedding_weights, log, saves, error, BATCH_SIZE, tableVars>>

\* worker w takes the next batch that was sent to it
WorkerTake(w) ==
  /\ pc \notin {"model_cell", "train_cell", "done", "crashed"}
  /\ workers[w].status = "idle"
  /\ \E b \in 0..(Len(tasks) - 1) :
       /\ WorkerOf(b) = w
       /\ b \notin ready \cup failed
       /\ \A b2 \in 0..(b - 1) : WorkerOf(b2) = w => b2 \in ready
       /\ workers' = [workers EXCEPT ![w] = [status |-> "busy", task |-> b, pos |-> 0]]
  /\ UNCHANGED <<pc, dataVars, sessVars, trainVars, BATCH_SIZE, tasks, ready,
                 failed, tableVars>>

\* worker w calls dataset[idx] for the next position of its batch; after the
\* last one the batch is collated and put on the result queue; an exception
\* is put there instead
WorkerGetItem(w) ==
  /\ pc \notin {"model_cell", "train_cell", "done", "crashed"}
  /\ workers[w].status = "busy"
  /\ LET b     == workers[w].task
         batch == At(tasks, b)
         idx   == batch[workers[w].pos + 1]
     IN  \E neg \in Multinomial(dataset.word_freqs,
                                K * Len(PosIndices(idx, C, DatasetLen(dataset)))) :
           /\ item' = GetItem(dataset, idx, C, neg)
           /\ dataset' = DatasetAfterGetItem(dataset, idx)
           /\ IF neg.status # "ok"
              THEN /\ failed' = failed \cup {b}
                   /\ workers' = [workers EXCEPT ![w] = IdleWorker]
                   /\ ready' = ready
              ELSE IF workers[w].pos + 1 = Len(batch)
              THEN /\ ready' = ready \cup {b}
                   /\ workers' = [workers EXCEPT ![w] = IdleWorker]
                   /\ failed' = failed
              ELSE /\ workers' = [workers EXCEPT ![w].pos = @ + 1]
                   /\ UNCHANGED <<ready, failed>>
  /\ UNCHANGED <<pc, txt_file, MAX_VOCAB_SIZE, C, K, text, idx2word, word2idx,
                 word_freqs, word_counts, VOCAB_SIZE, sessVars, trainVars,
                 BATCH_SIZE, tasks, tableVars>>

\* for i, batch in enumerate(dataloader): the next batch, in order, is there
FetchReady ==
  /\ pc = "for_i"
  /\ yielded < nbatches
  /\ yielded \in ready
  /\ i' = yielded
  /\ yielded' = yielded + 1
  /\ trace' = <<>>
  /\ pc' = "zero_grad"
  /\ UNCHANGED <<dataVars, sessVars, NUM_CUDA, nbatches, wrapped, e, steps,
                 embedding_weights, log, saves, error, workVars, tableVars>>

\* for i, batch in enumerate(dataloader): the worker's exception is re-raised
FetchFailed ==
  /\ pc = "for_i"
  /\ yielded < nbatches
  /\ yielded \in failed
  /\ error' = "RuntimeError"
  /\ pc' = "crashed"
  /\ UNCHANGED <<dataVars, sessVars, NUM_CUDA, nbatches, wrapped, e, i, yielded,
                 steps, embedding_weights, log, saves, trace, workVars, tableVars>>

NextWorkers ==
  \/ ConstructModel \/ CreateOptimizer
  \/ WorkersBeginEpoch \/ EndTraining
  \/ \E w \in WorkerIds : WorkerTake(w)
  \/ \E w \in WorkerIds : WorkerGetItem(w)
  \/ FetchReady \/ FetchFailed
  \/ ZeroGrad \/ Forward \/ Backward \/ Step
  \/ LogLoss \/ SkipLog \/ Evaluation \/ SkipEvaluation
  \/ Save

SpecWorkers == InitWorkers /\ [][NextWorkers]_vars

\* the shared data as the data cells built it
SharedDataIntact ==
  LET r == text_preprocess(txt_file, MAX_VOCAB_SIZE)
  IN  /\ text = r.text
      /\ idx2word = r.idx2word /\ word2idx = r.word2idx
      /\ word_freqs = r.word_freqs /\ word_counts = r.word_counts
      /\ dataset = DatasetInit(r.text, r.word2idx, r.idx2word, r.word_freqs,
                               r.word_counts, r.vocab_size)

\* C11: under every interleaving of the workers with the training loop no
\* __getitem__ call changes the encoded corpus, the vocabulary mappings, the
\* sampling distribution or the counts, and the two embedding tables are
\* written only by the optimizer step of the main loop: the main process is
\* their only writer and no worker ever writes them.
C11_WorkersOnlyRead ==
  /\ SharedDataIntact
  /\ writers \subseteq {"main"}
  /\ Cardinality(writers) <= 1
  /\ in_embed = steps /\ out_embed = steps
  /\ steps > 0 <=> writers = {"main"}

\* a worker still holds a batch of indices, a __getitem__ call has returned,
\* and the main loop has just written the tables
C11_Witness ==
  /\ pc = "log_check" /\ steps >= 1 /\ writers = {"main"}
  /\ item.status = "ok"
  /\ \E w \in WorkerIds : workers[w].status = "busy"

====
